---- MODULE Spec2Model ----
(***************************************************************************)
(* A model of download.py: the title parser (extract_url_and_title), the   *)
(* similarity scorer (calculate_title_similarity), the filename sanitizer  *)
(* (sanitize_filename), the direct downloader (download_from_url) and the  *)
(* orchestrator loop (download_papers).                                    *)
(*                                                                         *)
(* Strings are sequences of one-character strings.  A similarity ratio is  *)
(* the exact fraction <<numerator, denominator>> that Python's float       *)
(* division rounds; ratios are compared by cross-multiplication.           *)
(***************************************************************************)
EXTENDS Integers, Sequences, FiniteSets, TLC

VARIABLES
    titles,                 \* download_papers: the input list
    similarity_threshold,   \* download_papers: the acceptance threshold
    pos,                    \* index of the next title of the for loop
    pc,                     \* "idle" | "loop" | "done"
    successful_downloads,   \* the three result lists
    failed_downloads,
    title_mismatches,
    files,                  \* paper_downloads/: file name -> state on disk
    clock,                  \* seconds spent in time.sleep
    last,                   \* what the latest loop iteration did
    log,                    \* download_results.log
    in1, in2,               \* inputs of a pure function under test
    out                     \* its result

vars == <<titles, similarity_threshold, pos, pc, successful_downloads,
          failed_downloads, title_mismatches, files, clock, last, log,
          in1, in2, out>>

orchVars == <<titles, similarity_threshold, pos, pc, successful_downloads,
              failed_downloads, title_mismatches, files, clock, last, log>>

pureVars == <<in1, in2, out>>

----------------------------------------------------------------------------
(* Bounds of the model.                                                    *)

MaxLen == 3         \* longest string given to calculate_title_similarity
MaxChunks == 3      \* most chunks of a line given to extract_url_and_title
MaxTitles == 2      \* most titles of a run of download_papers
MaxCands == 2       \* most candidates one search returns (MAX_RESULTS asks for 10)

(* Program constants.                                                      *)

WAIT_TIME_SECS == 3
MaxFilenameLen == 240

----------------------------------------------------------------------------
(* Characters and helpers on strings.                                      *)

None == <<"None">>

Min(x, y) == IF x <= y THEN x ELSE y

\* The sequences over S of length at most n.
SeqsUpTo(S, n) == UNION {[1..k -> S] : k \in 0..n}

RECURSIVE Concat(_)
Concat(ss) == IF ss = <<>> THEN <<>> ELSE Head(ss) \o Concat(Tail(ss))

\* Python's \s on the characters of the model.
IsSpace(c) == c \in {" ", "\t"}

\* Python's \w on the characters of the model.
IsWord(c) == c \in {"a", "b", "c", "h", "p", "s", "t", "w", "x", "A", "B", "_"}

\* str.lower on one character.
LowerChar(c) == CASE c = "A" -> "a"
                  [] c = "B" -> "b"
                  [] OTHER -> c

Lower(s) == [k \in 1..Len(s) |-> LowerChar(s[k])]

\* re.sub(r'[^\w\s]', '', s)
RECURSIVE StripSpecial(_)
StripSpecial(s) ==
    IF s = <<>> THEN <<>>
    ELSE IF IsWord(Head(s)) \/ IsSpace(Head(s))
         THEN <<Head(s)>> \o StripSpecial(Tail(s))
         ELSE StripSpecial(Tail(s))

\* re.sub(r'\s+', ' ', s): every run of whitespace becomes one space.
RECURSIVE CollapseSpaces(_)
CollapseSpaces(s) ==
    IF s = <<>> THEN <<>>
    ELSE IF IsSpace(Head(s))
         THEN IF Len(s) > 1 /\ IsSpace(s[2])
              THEN CollapseSpaces(Tail(s))
              ELSE <<" ">> \o CollapseSpaces(Tail(s))
         ELSE <<Head(s)>> \o CollapseSpaces(Tail(s))

RECURSIVE LStrip(_)
LStrip(s) == IF s # <<>> /\ IsSpace(Head(s)) THEN LStrip(Tail(s)) ELSE s

RECURSIVE RStrip(_)
RStrip(s) == IF s # <<>> /\ IsSpace(s[Len(s)])
             THEN RStrip(SubSeq(s, 1, Len(s) - 1)) ELSE s

\* str.strip()
Strip(s) == RStrip(LStrip(s))

normalize_title(title) == Strip(CollapseSpaces(StripSpecial(Lower(title))))

----------------------------------------------------------------------------
(* difflib.SequenceMatcher(None, a, b).ratio(), without junk (the autojunk *)
(* heuristic needs a second string of 200 characters or more).             *)

\* The length of the common run a[i+1 ..] = b[j+1 ..] within the bounds.
RECURSIVE RunLen(_, _, _, _, _, _)
RunLen(a, b, i, j, ahi, bhi) ==
    IF i < ahi /\ j < bhi /\ a[i + 1] = b[j + 1]
    THEN 1 + RunLen(a, b, i + 1, j + 1, ahi, bhi)
    ELSE 0

\* r comes before q: a longer block, or as long and earlier in a, or as
\* long, at the same place in a and not later in b.
Precedes(r, q) ==
    \/ r[3] > q[3]
    \/ r[3] = q[3] /\ r[1] < q[1]
    \/ r[3] = q[3] /\ r[1] = q[1] /\ r[2] <= q[2]

find_longest_match(a, b, alo, ahi, blo, bhi) ==
    LET runs == {<<i, j, RunLen(a, b, i, j, ahi, bhi)>> :
                    i \in alo..(ahi - 1), j \in blo..(bhi - 1)}
    IN  IF alo >= ahi \/ blo >= bhi THEN <<alo, blo, 0>>
        ELSE CHOOSE r \in runs : \A q \in runs : Precedes(r, q)

\* get_matching_blocks: the total size of the blocks found by splitting at
\* the longest match and recursing to its left and to its right.
RECURSIVE MatchCount(_, _, _, _, _, _)
MatchCount(a, b, alo, ahi, blo, bhi) ==
    LET m == find_longest_match(a, b, alo, ahi, blo, bhi)
    IN  IF m[3] = 0 THEN 0
        ELSE m[3]
             + (IF alo < m[1] /\ blo < m[2]
                THEN MatchCount(a, b, alo, m[1], blo, m[2]) ELSE 0)
             + (IF m[1] + m[3] < ahi /\ m[2] + m[3] < bhi
                THEN MatchCount(a, b, m[1] + m[3], ahi, m[2] + m[3], bhi) ELSE 0)

\* A ratio that divides whenever it can and gives 0 for two empty strings.
calculate_ratio_ZeroWhenEmpty(matches, length) ==
    IF length > 0 THEN <<2 * matches, length>> ELSE <<0, 1>>

\* _calculate_ratio: 2.0 * matches / length, and 1.0 when both are empty.
calculate_ratio(matches, length) ==
    IF length > 0 THEN <<2 * matches, length>> ELSE <<1, 1>>

ratio(a, b) == calculate_ratio(MatchCount(a, b, 0, Len(a), 0, Len(b)), Len(a) + Len(b))

calculate_title_similarity(title1, title2) ==
    ratio(normalize_title(title1), normalize_title(title2))

\* Comparisons of two ratios.
RatEq(p, q) == p[1] * q[2] = q[1] * p[2]
RatLt(p, q) == p[1] * q[2] < q[1] * p[2]

----------------------------------------------------------------------------
(* extract_url_and_title.  url_pattern is                                  *)
(*   https?://[^\s<>"]+ | www\.[^\s<>"]+\.[^\s<>"]+                        *)

\* The characters [^\s<>"] excludes.
IsDelim(c) == IsSpace(c) \/ c \in {"<", ">", "\""}

HasPrefix(s, p, pre) ==
    /\ p + Len(pre) - 1 <= Len(s)
    /\ SubSeq(s, p, p + Len(pre) - 1) = pre

\* The last index of the longest run of [^\s<>"] that starts at p (p - 1
\* when the run is empty).
RECURSIVE RunEnd(_, _)
RunEnd(s, p) == IF p <= Len(s) /\ ~IsDelim(s[p]) THEN RunEnd(s, p + 1) ELSE p - 1

HttpPrefix == <<"h", "t", "t", "p", ":", "/", "/">>
HttpsPrefix == <<"h", "t", "t", "p", "s", ":", "/", "/">>
WwwPrefix == <<"w", "w", "w", ".">>

\* The last index of the match of url_pattern that starts at p, 0 when none
\* starts there.  Both alternatives end with a greedy [^\s<>"]+, so a match
\* runs to the end of the run of non-delimiters.
MatchEndAt(s, p) ==
    LET https == HasPrefix(s, p, HttpsPrefix) /\ RunEnd(s, p + 8) >= p + 8
        http == HasPrefix(s, p, HttpPrefix) /\ RunEnd(s, p + 7) >= p + 7
        e == RunEnd(s, p + 4)
        www == /\ HasPrefix(s, p, WwwPrefix)
               /\ \E k \in (p + 5)..(e - 1) : s[k] = "."
    IN  IF https THEN RunEnd(s, p + 8)
        ELSE IF http THEN RunEnd(s, p + 7)
        ELSE IF www THEN e
        ELSE 0

\* re.search(url_pattern, s): the start of the leftmost match, 0 when none.
re_search(s) ==
    LET starts == {p \in 1..Len(s) : MatchEndAt(s, p) > 0}
    IN  IF starts = {} THEN 0
        ELSE CHOOSE p \in starts : \A q \in starts : p <= q

\* re.sub(url_pattern, '', s) from index p on: every non-overlapping match,
\* found left to right, is removed.
RECURSIVE re_sub_from(_, _)
re_sub_from(s, p) ==
    IF p > Len(s) THEN <<>>
    ELSE IF MatchEndAt(s, p) > 0 THEN re_sub_from(s, MatchEndAt(s, p) + 1)
    ELSE <<s[p]>> \o re_sub_from(s, p + 1)

\* re.sub with count=1: only the first match is removed.
re_sub_FirstOnly(s) ==
    IF re_search(s) = 0 THEN s
    ELSE SubSeq(s, 1, re_search(s) - 1)
             \o SubSeq(s, MatchEndAt(s, re_search(s)) + 1, Len(s))

re_sub(s) == re_sub_from(s, 1)

extract_url_and_title(title_text) ==
    LET m == re_search(title_text)
    IN  IF m > 0
        THEN [url |-> SubSeq(title_text, m, MatchEndAt(title_text, m)),
              title |-> Strip(re_sub(title_text))]
        ELSE [url |-> None, title |-> title_text]

----------------------------------------------------------------------------
(* sanitize_filename                                                       *)

InvalidFilenameChars == {"<", ">", ":", "\"", "/", "\\", "|", "?", "*"}

RECURSIVE RemoveInvalid(_)
RemoveInvalid(s) ==
    IF s = <<>> THEN <<>>
    ELSE IF Head(s) \in InvalidFilenameChars THEN RemoveInvalid(Tail(s))
    ELSE <<Head(s)>> \o RemoveInvalid(Tail(s))

SpacesToUnderscores(s) == [k \in 1..Len(s) |-> IF s[k] = " " THEN "_" ELSE s[k]]

sanitize_filename(title) ==
    LET clean_title == SpacesToUnderscores(RemoveInvalid(title))
    IN  SubSeq(clean_title, 1, Min(MaxFilenameLen, Len(clean_title)))
            \o <<".", "p", "d", "f">>

----------------------------------------------------------------------------
(* The inputs the model draws from.                                        *)

\* Raw strings for calculate_title_similarity: letters of both cases,
\* punctuation and whitespace.
SimChars == {"a", "B", "-", " "}
SimStrings == SeqsUpTo(SimChars, MaxLen)

\* Strings of lowercase letters only (their own normal form).
PlainStrings == SeqsUpTo({"a", "b", "c"}, MaxLen)

\* Lines for extract_url_and_title: concatenations of these chunks.
Chunks == {HttpPrefix, WwwPrefix, HttpPrefix \o <<"x">>, WwwPrefix \o <<"a", ".", "b">>,
           <<"a">>, <<".">>, <<" ">>, <<"<">>, <<"h", "t">>}
Lines == {Concat(cs) : cs \in SeqsUpTo(Chunks, MaxChunks)}

\* Lines of papers.txt: a plain title, the same title with an embedded URL
\* (both name the file aba.pdf), and a title with punctuation.
TitleTexts == { <<"a", "b", "a">>,
                <<"a", "b", "a", " ">> \o HttpPrefix \o <<"x">>,
                <<"c", ":">> }

\* Titles of the papers a search can return.  Against the title aba they
\* score 1 and 1/3, against the title c: they score 0 and 1/2.
PaperTitles == { <<"A", "b", "a">>, <<"b", "c", "a">> }

DEFAULT_SIMILARITY_THRESHOLD == <<4, 5>>
Thresholds == { <<0, 1>>, <<1, 3>>, DEFAULT_SIMILARITY_THRESHOLD }

\* The files download_papers can name in paper_downloads.
FileNames == {sanitize_filename(extract_url_and_title(t).title) : t \in TitleTexts}

----------------------------------------------------------------------------
(* download_from_url(url, filepath): what the call returns and what it     *)
(* leaves at filepath, which does not exist when the call is made.         *)
(*   ok           the body is written and True returned                    *)
(*   http_error   requests.get or raise_for_status raises                  *)
(*   not_pdf      the content type does not contain 'pdf'                  *)
(*   open_error   open(filepath, 'wb') raises                              *)
(*   write_error  iter_content or f.write raises after open created the    *)
(*                file; nothing removes it                                 *)

UrlOutcomes == {"ok", "http_error", "not_pdf", "open_error", "write_error"}

download_from_url(outcome) ==
    CASE outcome = "ok" -> [ok |-> TRUE, file |-> "full"]
      [] outcome = "write_error" -> [ok |-> FALSE, file |-> "partial"]
      [] OTHER -> [ok |-> FALSE, file |-> "absent"]

\* best_match.download_pdf(filename=filepath): it returns, or raises URLError,
\* StopIteration or another exception; a failed retrieval may leave the
\* file it opened.
PdfFailures == {"URLError", "StopIteration", "Exception"}

----------------------------------------------------------------------------
(* download_papers                                                         *)

NoEntry == [title |-> <<>>, via |-> "", src |-> <<>>]

\* f"{title} (URL: {url})", f"{title} (ArXiv title: {best_match.title})" and
\* the bare title.
Entry(title, via, src) == [title |-> title, via |-> via, src |-> src]

\* download_results.log before it is written.
NoLog == [written |-> FALSE, successful |-> <<>>, failed |-> <<>>, mismatches |-> <<>>]

NoIteration ==
    [idx |-> 0, existed |-> FALSE, search |-> "none", cands |-> <<>>,
     best |-> <<0, 1>>, match |-> None, calls |-> <<>>, dlok |-> FALSE,
     slept |-> 0, appended |-> "none"]

InitOrch ==
    /\ titles \in SeqsUpTo(TitleTexts, MaxTitles)
    /\ similarity_threshold \in Thresholds
    /\ pos = 1
    /\ pc = "loop"
    /\ successful_downloads = <<>>
    /\ failed_downloads = <<>>
    /\ title_mismatches = <<>>
    /\ files \in [FileNames -> {"absent", "pre"}]
    /\ clock = 0
    /\ last = NoIteration
    /\ log = NoLog

IdleOrch ==
    /\ titles = <<>>
    /\ similarity_threshold = DEFAULT_SIMILARITY_THRESHOLD
    /\ pos = 1
    /\ pc = "idle"
    /\ successful_downloads = <<>>
    /\ failed_downloads = <<>>
    /\ title_mismatches = <<>>
    /\ files = [f \in FileNames |-> "absent"]
    /\ clock = 0
    /\ last = NoIteration
    /\ log = NoLog

IdlePure == in1 = <<>> /\ in2 = <<>> /\ out = [tag |-> "none"]

\* for title_text in titles
InLoop == pc = "loop" /\ pos <= Len(titles)

\* Line 104: url, title = extract_url_and_title(title_text)
CurParsed == extract_url_and_title(titles[pos])

\* filepath.exists()
Exists(filename) == files[filename] # "absent"

\* The start of an iteration's record.
ThisIteration(filename) ==
    [NoIteration EXCEPT !.idx = pos, !.existed = Exists(filename)]

\* One iteration ends: `list` gets `entry` ("none": no list does), the loop
\* moves to the next title.
EndIteration(list, entry, rec) ==
    /\ successful_downloads' = IF list = "successful"
                               THEN Append(successful_downloads, entry)
                               ELSE successful_downloads
    /\ failed_downloads' = IF list = "failed"
                           THEN Append(failed_downloads, entry)
                           ELSE failed_downloads
    /\ title_mismatches' = IF list = "mismatch"
                           THEN Append(title_mismatches, entry)
                           ELSE title_mismatches
    /\ last' = [rec EXCEPT !.appended = list]
    /\ pos' = pos + 1
    /\ UNCHANGED <<titles, similarity_threshold, pc, log, in1, in2, out>>

\* time.sleep(WAIT_TIME_SECS)
Sleep == clock' = clock + WAIT_TIME_SECS

\* Line 106: if url (a string that is not empty)
HasUrl(parsed) == parsed.url # None /\ parsed.url # <<>>

\* The direct-URL path without its existence check: the file is fetched
\* again.
UrlSkipExisting_Redownload(parsed, filename) ==
    /\ HasUrl(parsed)
    /\ Exists(filename)
    /\ files' = [files EXCEPT ![filename] = "full"]
    /\ Sleep
    /\ EndIteration("successful", Entry(parsed.title, "URL", parsed.url),
           [ThisIteration(filename) EXCEPT !.calls = <<"download_from_url">>,
                                           !.dlok = TRUE,
                                           !.slept = WAIT_TIME_SECS])

\* Lines 106-114: the title has a URL and its file exists.
UrlSkipExisting(parsed, filename) ==
    /\ HasUrl(parsed)
    /\ Exists(filename)
    /\ EndIteration("successful", Entry(parsed.title, "URL", parsed.url),
                    ThisIteration(filename))
    /\ UNCHANGED <<files, clock>>

\* The direct-URL path without its time.sleep.
UrlDownloaded_NoSleep(parsed, filename) ==
    /\ HasUrl(parsed)
    /\ ~Exists(filename)
    /\ files' = [files EXCEPT ![filename] = "full"]
    /\ EndIteration("successful", Entry(parsed.title, "URL", parsed.url),
           [ThisIteration(filename) EXCEPT !.calls = <<"download_from_url">>,
                                           !.dlok = TRUE])
    /\ UNCHANGED clock

\* Lines 116-120: download_from_url returns True.
UrlDownloaded(parsed, filename) ==
    /\ HasUrl(parsed)
    /\ ~Exists(filename)
    /\ \E o \in UrlOutcomes :
         /\ download_from_url(o).ok
         /\ files' = [files EXCEPT ![filename] = download_from_url(o).file]
         /\ Sleep
         /\ EndIteration("successful", Entry(parsed.title, "URL", parsed.url),
                [ThisIteration(filename) EXCEPT !.calls = <<"download_from_url">>,
                                                !.dlok = TRUE,
                                                !.slept = WAIT_TIME_SECS])

\* The failure branch without its continue: the title falls through to the
\* search, which finds nothing.
UrlDownloadFailed_FallsThrough(parsed, filename) ==
    /\ HasUrl(parsed)
    /\ ~Exists(filename)
    /\ failed_downloads' =
           Append(failed_downloads, Entry(parsed.title, "URL", parsed.url))
    /\ title_mismatches' = Append(title_mismatches, Entry(parsed.title, "", <<>>))
    /\ last' = [ThisIteration(filename) EXCEPT !.calls = <<"download_from_url">>,
                                              !.search = "returned",
                                              !.appended = "mismatch"]
    /\ pos' = pos + 1
    /\ UNCHANGED <<titles, similarity_threshold, pc, log, in1, in2, out,
                   successful_downloads, files, clock>>

\* Lines 116, 121-123: download_from_url returns False.
UrlDownloadFailed(parsed, filename) ==
    /\ HasUrl(parsed)
    /\ ~Exists(filename)
    /\ \E o \in UrlOutcomes :
         /\ ~download_from_url(o).ok
         /\ files' = [files EXCEPT ![filename] = download_from_url(o).file]
         /\ EndIteration("failed", Entry(parsed.title, "URL", parsed.url),
                [ThisIteration(filename) EXCEPT !.calls = <<"download_from_url">>])
    /\ UNCHANGED clock

\* Line 144: calculate_title_similarity(title, paper.title) for each paper
\* the search can return; the score of a paper does not depend on its place
\* in the results, so it is computed once for the title.
RECURSIVE similarities(_, _)
similarities(title, papers) ==
    IF papers = {} THEN <<>>
    ELSE LET paper == CHOOSE p \in papers : TRUE
         IN  (paper :> calculate_title_similarity(title, paper))
                 @@ similarities(title, papers \ {paper})

\* Lines 138-146: the loop over search.results(), from best_match = None and
\* best_similarity = 0; a candidate replaces the best one only with a
\* strictly greater similarity.
RECURSIVE best_of(_, _, _)
best_of(score, cands, best) ==
    IF cands = <<>> THEN best
    ELSE LET paper == Head(cands)
             similarity == score[paper]
         IN  IF RatLt(best.sim, similarity)
             THEN best_of(score, Tail(cands), [match |-> paper, sim |-> similarity])
             ELSE best_of(score, Tail(cands), best)

find_best_match(score, cands) == best_of(score, cands, [match |-> None, sim |-> <<0, 1>>])

\* The test of line 148 without its comparison with the threshold.
rejected_NoneOnly(best, threshold) == best.match = None

\* Line 148: best_match is None or best_similarity < similarity_threshold
rejected(best, threshold) == best.match = None \/ RatLt(best.sim, threshold)

\* What search.results() can return.
SearchResults == SeqsUpTo(PaperTitles, MaxCands)

\* After search.results() returned cands: the record of the iteration.
Searched(filename, cands, best) ==
    [ThisIteration(filename) EXCEPT !.search = "returned", !.cands = cands,
                                    !.best = best.sim, !.match = best.match]

\* Lines 131-142, 176-178: arxiv.Search or search.results() raises; the
\* outer handler records the title as failed.
SearchFailed(parsed, filename) ==
    /\ ~HasUrl(parsed)
    /\ EndIteration("failed", Entry(parsed.title, "", <<>>),
                    [ThisIteration(filename) EXCEPT !.search = "Exception"])
    /\ UNCHANGED <<files, clock>>

\* Lines 142, 172-174: StopIteration reaches the inner handler, which
\* prints and continues.
SearchStopIteration(parsed, filename) ==
    /\ ~HasUrl(parsed)
    /\ EndIteration("none", NoEntry,
                    [ThisIteration(filename) EXCEPT !.search = "StopIteration"])
    /\ UNCHANGED <<files, clock>>

\* Lines 148-151: no candidate, or the best one is below the threshold.
SearchNoMatch(parsed, filename, cands, best) ==
    /\ ~HasUrl(parsed)
    /\ rejected(best, similarity_threshold)
    /\ EndIteration("mismatch", Entry(parsed.title, "", <<>>),
                    Searched(filename, cands, best))
    /\ UNCHANGED <<files, clock>>

\* Lines 154-159: a match is accepted and its file exists.
SearchSkipExisting(parsed, filename, cands, best) ==
    /\ ~HasUrl(parsed)
    /\ ~rejected(best, similarity_threshold)
    /\ Exists(filename)
    /\ EndIteration("successful", Entry(parsed.title, "ArXiv title", best.match),
                    Searched(filename, cands, best))
    /\ UNCHANGED <<files, clock>>

\* Lines 162-167: download_pdf returns.
SearchDownloaded(parsed, filename, cands, best) ==
    /\ ~HasUrl(parsed)
    /\ ~rejected(best, similarity_threshold)
    /\ ~Exists(filename)
    /\ files' = [files EXCEPT ![filename] = "full"]
    /\ Sleep
    /\ EndIteration("successful", Entry(parsed.title, "ArXiv title", best.match),
           [Searched(filename, cands, best) EXCEPT !.calls = <<"download_pdf">>,
                                                   !.dlok = TRUE,
                                                   !.slept = WAIT_TIME_SECS])

\* Lines 163, 168-178: download_pdf raises.  URLError is recorded by its own
\* handler and any other exception by the outer one; StopIteration is
\* taken by the inner handler, which records nothing.
SearchDownloadFailed(parsed, filename, cands, best) ==
    /\ ~HasUrl(parsed)
    /\ ~rejected(best, similarity_threshold)
    /\ ~Exists(filename)
    /\ \E exc \in PdfFailures, residue \in {"absent", "partial"} :
         /\ files' = [files EXCEPT ![filename] = residue]
         /\ EndIteration(IF exc = "StopIteration" THEN "none" ELSE "failed",
                         IF exc = "StopIteration" THEN NoEntry
                         ELSE Entry(parsed.title, "", <<>>),
                         [Searched(filename, cands, best) EXCEPT
                              !.calls = <<"download_pdf">>])
    /\ UNCHANGED clock

\* Lines 106-123: the branch taken when the title has a URL.
UrlPath(parsed, filename) ==
    \/ UrlSkipExisting(parsed, filename)
    \/ UrlDownloaded(parsed, filename)
    \/ UrlDownloadFailed(parsed, filename)

\* Lines 125-178: the search for a title without a URL.
SearchPath(parsed, filename) ==
    \/ SearchFailed(parsed, filename)
    \/ SearchStopIteration(parsed, filename)
    \/ \E score \in {similarities(parsed.title, PaperTitles)} :
       \E cands \in SearchResults : \E best \in {find_best_match(score, cands)} :
         \/ SearchNoMatch(parsed, filename, cands, best)
         \/ SearchSkipExisting(parsed, filename, cands, best)
         \/ SearchDownloaded(parsed, filename, cands, best)
         \/ SearchDownloadFailed(parsed, filename, cands, best)

\* Lines 102-178: one iteration of the loop over titles.
ProcessTitle ==
    /\ InLoop
    /\ \E parsed \in {CurParsed} : \E filename \in {sanitize_filename(parsed.title)} :
         \/ UrlPath(parsed, filename)
         \/ SearchPath(parsed, filename)

\* Lines 180-193: the loop is over; the summary is printed and the log written.
WriteLog ==
    /\ pc = "loop"
    /\ pos > Len(titles)
    /\ pc' = "done"
    /\ log' = [written |-> TRUE,
               successful |-> successful_downloads,
               failed |-> failed_downloads,
               mismatches |-> title_mismatches]
    /\ UNCHANGED <<titles, similarity_threshold, pos, successful_downloads,
                   failed_downloads, title_mismatches, files, clock, last,
                   in1, in2, out>>

Init == InitOrch /\ IdlePure

Next ==
    \/ ProcessTitle
    \/ WriteLog

Spec == Init /\ [][Next]_vars

----------------------------------------------------------------------------
(* calculate_title_similarity and extract_url_and_title applied to inputs  *)
(* drawn from bounded sets.                                                *)

InitSim == IdleOrch /\ in1 \in SimStrings /\ in2 \in PlainStrings /\ out = [tag |-> "none"]

CallSimilarity ==
    /\ out.tag = "none"
    /\ out' = [tag |-> "similarity",
               ab |-> calculate_title_similarity(in1, in2),
               ba |-> calculate_title_similarity(in2, in1),
               aa |-> calculate_title_similarity(in1, in1)]
    /\ UNCHANGED <<in1, in2>>
    /\ UNCHANGED orchVars

NextSim == CallSimilarity

SpecSim == InitSim /\ [][NextSim]_vars

InitUrl == IdleOrch /\ in1 \in Lines /\ in2 = <<>> /\ out = [tag |-> "none"]

CallExtract ==
    /\ out.tag = "none"
    /\ out' = [tag |-> "extract",
               url |-> extract_url_and_title(in1).url,
               title |-> extract_url_and_title(in1).title]
    /\ UNCHANGED <<in1, in2>>
    /\ UNCHANGED orchVars

NextUrl == CallExtract

SpecUrl == InitUrl /\ [][NextUrl]_vars

----------------------------------------------------------------------------
(* What the claims speak of.                                               *)

\* u as a whole is a match of url_pattern.
IsUrl(u) ==
    \/ \E pre \in {HttpPrefix, HttpsPrefix} :
         /\ HasPrefix(u, 1, pre)
         /\ Len(u) > Len(pre)
         /\ \A k \in (Len(pre) + 1)..Len(u) : ~IsDelim(u[k])
    \/ /\ HasPrefix(u, 1, WwwPrefix)
       /\ \A k \in 5..Len(u) : ~IsDelim(u[k])
       /\ \E k \in 6..(Len(u) - 1) : u[k] = "."

ContainsUrl(s) == \E p \in 1..Len(s) : \E q \in p..Len(s) : IsUrl(SubSeq(s, p, q))

IsSubstring(u, s) == \E p \in 1..(Len(s) - Len(u) + 1) : SubSeq(s, p, p + Len(u) - 1) = u

\* t is s with some characters left out.
RECURSIVE IsSubsequence(_, _)
IsSubsequence(t, s) ==
    IF t = <<>> THEN TRUE
    ELSE IF s = <<>> THEN FALSE
    ELSE IF Head(t) = Head(s) THEN IsSubsequence(Tail(t), Tail(s))
    ELSE IsSubsequence(t, Tail(s))

Trimmed(t) == t = <<>> \/ (~IsSpace(t[1]) /\ ~IsSpace(t[Len(t)]))

\* The latest iteration of the loop of download_papers.
Iterated == last.idx > 0
LastText == titles[last.idx]
LastHasUrl == ContainsUrl(LastText)
LastTitle == extract_url_and_title(LastText).title
LastFilename == sanitize_filename(LastTitle)
Returned == last.search = "returned"
SimTo(paper) == calculate_title_similarity(LastTitle, paper)
Meets(paper) == ~RatLt(SimTo(paper), similarity_threshold)
NoneMeets == \A k \in 1..Len(last.cands) : ~Meets(last.cands[k])
Entries == Len(successful_downloads) + Len(failed_downloads) + Len(title_mismatches)

\* C1: every title processed so far has exactly one entry over the three
\* result lists, so that when the loop has finished the lists hold as many
\* entries as there are titles and no iteration has appended none or two.
C1_ExactlyOneListPerTitle ==
    /\ pc \in {"loop", "done"} => Entries = pos - 1
    /\ pc = "done" => Entries = Len(titles)
    /\ Iterated => last.appended # "none"

\* C2 as stated: a title whose file exists when it is processed is
\* classified successful, without a download call, on both paths and
\* whatever the search returns.
C2_ExistingFileIsSuccess ==
    Iterated /\ last.existed => last.appended = "successful" /\ last.calls = <<>>

\* C2 as amended: a title whose file exists when it is processed gets no
\* download call; it is classified successful on the direct-URL path, and on
\* the search path exactly when the search returns a candidate whose
\* similarity is above 0 and reaches the threshold.
C2_ExistingFileNoDownload ==
    Iterated /\ last.existed =>
        /\ last.calls = <<>>
        /\ LastHasUrl => last.appended = "successful"
        /\ ~LastHasUrl =>
             (last.appended = "successful" <=>
                 /\ Returned
                 /\ \E k \in 1..Len(last.cands) :
                      RatLt(<<0, 1>>, SimTo(last.cands[k])) /\ Meets(last.cands[k]))

C2_Witness ==
    Iterated /\ last.existed /\ ~LastHasUrl /\ last.appended = "successful"

\* A failure of the kinds C3 lists: a failed download, an exception of the
\* search, an empty or sub-threshold search result.
FailureHit ==
    \/ last.search \in {"StopIteration", "Exception"}
    \/ last.calls # <<>> /\ ~last.dlok
    \/ Returned /\ NoneMeets

\* C3: a title that hits a failure is recorded in the failed or the
\* not-found list, the loop goes on to every later title, and the log is
\* written once the loop is over.
C3_NoErrorAbortsBatch ==
    /\ Iterated /\ FailureHit => last.appended \in {"failed", "mismatch"}
    /\ pc = "done" => pos = Len(titles) + 1 /\ log.written

\* C4: on the search path, when the search returns no candidates or none
\* that reaches the threshold, the title is appended to title_mismatches and
\* to no other list, and download_pdf is not called.
C4_NoMatchIsNotFound ==
    Iterated /\ ~LastHasUrl /\ Returned /\ NoneMeets =>
        /\ last.appended = "mismatch"
        /\ title_mismatches # <<>>
        /\ title_mismatches[Len(title_mismatches)] = Entry(LastTitle, "", <<>>)
        /\ last.calls = <<>>

C4_Witness ==
    /\ Iterated /\ ~LastHasUrl /\ Returned /\ NoneMeets
    /\ last.cands # <<>>
    /\ last.existed
    /\ last.appended = "mismatch"

\* C5: on the search path, when a returned candidate reaches the threshold
\* the title is not classified not-found, and the accepted candidate has the
\* greatest score of all returned candidates.
C5_BestCandidateAccepted ==
    Iterated /\ ~LastHasUrl /\ Returned /\ ~NoneMeets =>
        /\ last.appended # "mismatch"
        /\ last.match # None
        /\ RatEq(last.best, SimTo(last.match))
        /\ \A k \in 1..Len(last.cands) : ~RatLt(last.best, SimTo(last.cands[k]))

\* C6: a title with a URL is handled by the direct-URL path only and never
\* searched, a title without one by the search path only, and no title gets
\* more than one download call.
C6_ExclusiveSingleAttempt ==
    Iterated =>
        /\ Len(last.calls) <= 1
        /\ LastHasUrl =>
             /\ last.search = "none"
             /\ \A k \in 1..Len(last.calls) : last.calls[k] = "download_from_url"
        /\ ~LastHasUrl =>
             /\ last.search # "none"
             /\ \A k \in 1..Len(last.calls) : last.calls[k] = "download_pdf"

C6_Witness ==
    /\ Iterated /\ LastHasUrl
    /\ last.calls = <<"download_from_url">>
    /\ ~last.dlok
    /\ last.search = "none"

\* C7: the iteration sleeps WAIT_TIME_SECS exactly when its download call
\* succeeded, on either path, so a skipped, failed or not-found title costs
\* no delay and the time slept is WAIT_TIME_SECS for each file downloaded.
C7_DelayAfterEachDownload ==
    /\ Iterated => last.slept = (IF last.dlok THEN WAIT_TIME_SECS ELSE 0)
    /\ Iterated /\ last.dlok => last.calls # <<>> /\ last.appended = "successful"
    /\ pc \in {"loop", "done"} =>
         clock = WAIT_TIME_SECS * Cardinality({f \in FileNames : files[f] = "full"})

C7_Witness ==
    /\ Iterated /\ last.dlok /\ LastHasUrl
    /\ clock = 2 * WAIT_TIME_SECS

C9_UrlAndCleanTitle ==
    out.tag = "extract" =>
        IF ContainsUrl(in1)
        THEN /\ out.url # None
             /\ IsUrl(out.url)
             /\ IsSubstring(out.url, in1)
             /\ ~ContainsUrl(out.title)
             /\ Trimmed(out.title)
             /\ IsSubsequence(out.title, in1)
             /\ Len(out.title) <= Len(in1) - Len(out.url)
        ELSE out.url = None /\ out.title = in1

\* A line with two URLs and text around them.
C9_Witness ==
    /\ out.tag = "extract"
    /\ out.url # None
    /\ out.title # <<>>
    /\ \E p \in 1..Len(in1) : IsDelim(in1[p]) /\ ContainsUrl(SubSeq(in1, 1, p - 1))
                                              /\ ContainsUrl(SubSeq(in1, p + 1, Len(in1)))

\* C10: a download_from_url that returned False leaves no file at its
\* target, so a title is recorded as successful only when its file was
\* there before the run or a download call for it returned success.
C10_FailedDownloadLeavesNoFile ==
    /\ Iterated /\ last.calls = <<"download_from_url">> /\ ~last.dlok =>
         files[LastFilename] = "absent"
    /\ Iterated /\ last.appended = "successful" =>
         files[LastFilename] \in {"pre", "full"}

====
